---- MODULE Spec2Model ----
(***************************************************************************)
(* A model of src/gelf.ts: the Gelf client (an EventEmitter) that          *)
(* normalises a log event, deflates it, splits it into GELF chunks when    *)
(* it is longer than the configured limit and hands the datagram(s) to a   *)
(* UDP socket one after the other.                                         *)
(*                                                                         *)
(* Every asynchronous continuation of the code (the 'gelf.log' and         *)
(* 'gelf.message' listeners, the setImmediate callback, the deflate        *)
(* callback, the socket's send callback) is one action.                    *)
(***************************************************************************)
EXTENDS Integers, Sequences, FiniteSets, TLC

\* ------------------------------------------------------------------ bounds

\* Longest deflated payload the environment hands back, in bytes.
MaxLen == 3
\* Largest configured maxChunkSizeWan / maxChunkSizeLan.
MaxChunkSize == 2
\* Latest wall-clock second the environment reports.
MaxTime == 1
\* Passes of the loop of getChunks followed beyond the length of the
\* buffer, the most a loop that moves forward can make.
ExtraPasses == 2

\* ------------------------------------------------------- program constants

\* const GELF_MAGIC_NO = [ 0x1e, 0x0f ]
GELF_MAGIC_NO == <<30, 15>>
\* Math.floor(Math.random() * (99999999 - 10000000)) + 10000000
MsgIdSpan == 89999999
MsgIdBase == 10000000
\* Buffer.from(array) keeps value & 255 of every element.
ByteMod == 256
\* The most chunks a GELF message may have.
MaxChunkCount == 128

\* ------------------------------------------------------------ JS values

Undefined == [t |-> "undefined", s |-> "", n |-> 0]
Str(x) == [t |-> "string", s |-> x, n |-> 0]
Num(k) == [t |-> "number", s |-> "", n |-> k]

\* JavaScript truthiness of a value: undefined, 0 and '' are falsy.
Truthy(v) ==
    ~ \/ v.t = "undefined"
      \/ (v.t = "number" /\ v.n = 0)
      \/ (v.t = "string" /\ v.s = "")

\* An object is the sequence of its own <<key, value>> pairs in insertion
\* order, every key at most once.
Keys(obj) == {obj[i][1] : i \in 1..Len(obj)}

Get(obj, k) ==
    IF k \in Keys(obj)
    THEN (CHOOSE p \in {obj[i] : i \in 1..Len(obj)} : p[1] = k)[2]
    ELSE Undefined

\* obj[k] = v: an existing key keeps its place, a new key is appended.
Set(obj, k, v) ==
    IF k \in Keys(obj)
    THEN [i \in 1..Len(obj) |-> IF obj[i][1] = k THEN <<k, v>> ELSE obj[i]]
    ELSE Append(obj, <<k, v>>)

\* JSON.stringify(obj): the pairs in insertion order, a key whose value is
\* undefined left out.
JSONstringify(obj) == SelectSeq(obj, LAMBDA p : p[2].t # "undefined")

\* ------------------------------------------------------- sanitizeMsg

\* os.hostname() of the machine the client runs on.
Hostname == "localhost"

\* A trigger input: a string, or an object given by its pairs.
StrMsg(x) == [type |-> "string", str |-> x, obj |-> <<>>]
ObjMsg(o) == [type |-> "object", str |-> "", obj |-> o]

\* A string handed to sendMessage: the JSON text of an envelope (its pairs)
\* or a raw text.
JsonText(pairs) == [kind |-> "json", pairs |-> pairs, text |-> ""]
RawText(x) == [kind |-> "raw", pairs |-> <<>>, text |-> x]

\* if (!msg[k]) json[k] = v
DefaultField(msg, json, k, v) ==
    IF ~Truthy(Get(msg.obj, k)) THEN Set(json, k, v) ELSE json

\* sanitizeMsg(msg) with the host name and the clock (in seconds) it reads.
\* rejected: it called emitError(new Error('_id is not allowed')) and
\* returned what emitError returns, undefined; otherwise text is the value
\* of JSON.stringify(json).
sanitizeMsg(msg, hostname, now) ==
    LET j0 == IF msg.type = "string"
              THEN Set(<<>>, "short_message", Str(msg.str))
              ELSE msg.obj
        isObj == msg.type = "object"
        j1 == IF isObj THEN DefaultField(msg, j0, "version", Str("1.0")) ELSE j0
        j2 == IF isObj THEN DefaultField(msg, j1, "host", Str(hostname)) ELSE j1
        j3 == IF isObj THEN DefaultField(msg, j2, "timestamp", Num(now)) ELSE j2
        j4 == IF isObj THEN DefaultField(msg, j3, "facility", Str("node.js")) ELSE j3
        j5 == IF ~Truthy(Get(j4, "short_message"))
              THEN Set(j4, "short_message", Str("Gelf Shortmessage"))
              ELSE j4
    IN  IF isObj /\ Truthy(Get(msg.obj, "_id"))
        THEN [rejected |-> TRUE, text |-> RawText("")]
        ELSE [rejected |-> FALSE, text |-> JsonText(JSONstringify(j5))]

\* --------------------------------------------------------------- chunker

Min(a, b) == IF a < b THEN a ELSE b

\* Array.prototype.slice.call(buf, start, end) for 0 <= start <= end:
\* the bytes at offsets start .. end-1, cut at the end of buf.
Slice(buf, start, end) == SubSeq(buf, start + 1, Min(end, Len(buf)))

Max(a, b) == IF a > b THEN a ELSE b

\* Array.prototype.slice.call(buf, start, end) for any integers: a negative
\* position counts from the end of buf, and both are cut to 0 .. buf.length.
ArraySlice(buf, start, end) ==
    LET len == Len(buf)
        from == IF start < 0 THEN Max(len + start, 0) ELSE Min(start, len)
        to == IF end < 0 THEN Max(len + end, 0) ELSE Min(end, len)
    IN  SubSeq(buf, from + 1, to)

\* The loop of getChunks from position index on (chunkSize >= 1):
\* for (; index < buf.length; index += chunkSize) res.push(slice(...))
RECURSIVE ChunksFrom(_, _, _)
ChunksFrom(buf, index, chunkSize) ==
    IF index < Len(buf)
    THEN <<Slice(buf, index, index + chunkSize)>>
             \o ChunksFrom(buf, index + chunkSize, chunkSize)
    ELSE <<>>

getChunks(buf, chunkSize) == ChunksFrom(buf, 0, chunkSize)

\* Buffer.from(array): every element becomes the byte value & 255.
BufferFrom(arr) == [k \in 1..Len(arr) |-> arr[k] % ByteMod]

\* createPackets drawing an id for every chunk instead of one for the
\* message.
createPackets_IdPerChunk(chunks, msgId) ==
    LET count == Len(chunks)
    IN  [i \in 1..count |->
            BufferFrom(GELF_MAGIC_NO \o <<msgId + i, i - 1, count>> \o chunks[i])]

\* createPackets(chunks) with the message id Math.random() gave it.
\* Array.concat appends the numbers msgId, index and count as one element
\* each and the elements of chunk after them.
createPackets(chunks, msgId) ==
    LET count == Len(chunks)
    IN  [i \in 1..count |->
            BufferFrom(GELF_MAGIC_NO \o <<msgId, i - 1, count>> \o chunks[i])]

\* maybeChunkMessage(buf) calls getChunks: the connection is 'wan' or 'lan'
\* and buf is longer than the limit of that kind.
callsGetChunks(buf, config) ==
    \/ config.connection = "wan" /\ Len(buf) > config.maxChunkSizeWan
    \/ config.connection = "lan" /\ Len(buf) > config.maxChunkSizeLan

\* The chunkSize maybeChunkMessage gives getChunks when it calls it.
chunkSizeGiven(config) ==
    IF config.connection = "wan"
    THEN config.maxChunkSizeWan
    ELSE config.maxChunkSizeLan

\* maybeChunkMessage with >= written for >: a buffer exactly as long as the
\* limit is chunked too.
maybeChunkMessage_AtLimit(buf, config, msgId) ==
    LET bufSize == Len(buf)
    IN  IF config.connection = "wan" /\ bufSize >= config.maxChunkSizeWan
        THEN [isArray |-> TRUE,
              value |-> createPackets(getChunks(buf, config.maxChunkSizeWan), msgId)]
        ELSE IF config.connection = "lan" /\ bufSize >= config.maxChunkSizeLan
        THEN [isArray |-> TRUE,
              value |-> createPackets(getChunks(buf, config.maxChunkSizeLan), msgId)]
        ELSE [isArray |-> FALSE, value |-> buf]

\* maybeChunkMessage(buf): isArray tells whether the value returned is the
\* array of packets or buf itself.
maybeChunkMessage(buf, config, msgId) ==
    LET bufSize == Len(buf)
    IN  IF config.connection = "wan" /\ bufSize > config.maxChunkSizeWan
        THEN [isArray |-> TRUE,
              value |-> createPackets(getChunks(buf, config.maxChunkSizeWan), msgId)]
        ELSE IF config.connection = "lan" /\ bufSize > config.maxChunkSizeLan
        THEN [isArray |-> TRUE,
              value |-> createPackets(getChunks(buf, config.maxChunkSizeLan), msgId)]
        ELSE [isArray |-> FALSE, value |-> buf]

\* ----------------------------------------------------------- environment

\* Values of a payload byte.
Bytes == {0, 255}
\* The buffers deflate may hand back: never empty.
Payloads == UNION {[1..n -> Bytes] : n \in 1..MaxLen}
\* The least and the greatest value of the message id expression.
MsgIds == {MsgIdBase, MsgIdBase + MsgIdSpan - 1}
\* Seconds the clock may show when sanitizeMsg reads it.
Times == 1..MaxTime
\* The options the client may be constructed with.
Configs ==
    [connection : {"wan", "lan"},
     maxChunkSizeWan : 1..MaxChunkSize,
     maxChunkSizeLan : 1..MaxChunkSize]
\* The completion callback of a trigger event: none given (the default
\* () => {}), one that returns undefined, one that returns a truthy value.
Callbacks == {"none", "void", "truthy"}
\* Inputs of 'gelf.log'.
LogInputs ==
    {StrMsg("hello"),
     ObjMsg(<<>>),
     ObjMsg(<< <<"short_message", Str("hi")>>, <<"timestamp", Num(0)>> >>),
     ObjMsg(<< <<"_id", Str("abc")>>, <<"short_message", Str("hi")>> >>),
     ObjMsg(<< <<"_id", Num(0)>>, <<"short_message", Str("hi")>> >>),
     ObjMsg(<< <<"_id", Str("")>> >>)}
\* Inputs of 'gelf.message'.
RawInputs == {"raw"}
\* The messages of one run, and the one message of a run with a single
\* trigger event.
Msgs == {1, 2}
FirstMsg == {1}

ErrId == "_id is not allowed"
ErrDeflate == "deflate failed"
ErrSend == "send failed"
ErrType == "TypeError: buf is undefined"
\* The argument of a callback called with no error.
Null == "null"

\* ------------------------------------------------------------------ state

VARIABLES
    config,         \* this.config
    errorListener,  \* whether the application listens to 'error'
    pc,             \* per message: where its pipeline stands
    trigger,        \* per message: the event that started it
    input,          \* per message: the argument of the trigger event
    cb,             \* per message: the completion callback given
    text,           \* per message: the string handed to sendMessage
    deflateErr,     \* per message: the error deflate called back with, "" before it did
    payload,        \* per message: the buffer deflate called back with
    tasks,          \* per message: the datagrams send() made tasks of
    inflight,       \* per message: indexes of client.send calls not called back
    sent,           \* per message: indexes handed to client.send, in call order
    acked,          \* per message: indexes whose send called back, with the error
    cbCalls,        \* per message: arguments the completion callback was called with
    errEvents,      \* per message: errors emitted as 'error' events
    thrown,         \* per message: the exception that left a handler, if any
    loop            \* per message: the loop of getChunks while it runs

vars == <<config, errorListener, pc, trigger, input, cb, text, deflateErr, payload, tasks,
          inflight, sent, acked, cbCalls, errEvents, thrown, loop>>

NoThrow == [in |-> "", err |-> ""]

\* getChunks not running: index and res of its loop, its chunkSize, and the
\* message id createPackets will draw.
NoLoop == [index |-> 0, res |-> <<>>, chunkSize |-> 0, msgId |-> 0]

\* The client after its constructor, nothing triggered yet.
Fresh ==
    /\ pc = [m \in Msgs |-> "idle"]
    /\ trigger = [m \in Msgs |-> ""]
    /\ input = [m \in Msgs |-> StrMsg("")]
    /\ cb = [m \in Msgs |-> "none"]
    /\ text = [m \in Msgs |-> RawText("")]
    /\ deflateErr = [m \in Msgs |-> ""]
    /\ payload = [m \in Msgs |-> <<>>]
    /\ tasks = [m \in Msgs |-> <<>>]
    /\ inflight = [m \in Msgs |-> {}]
    /\ sent = [m \in Msgs |-> <<>>]
    /\ acked = [m \in Msgs |-> <<>>]
    /\ cbCalls = [m \in Msgs |-> <<>>]
    /\ errEvents = [m \in Msgs |-> <<>>]
    /\ thrown = [m \in Msgs |-> NoThrow]
    /\ loop = [m \in Msgs |-> NoLoop]

Init ==
    /\ config \in Configs
    /\ errorListener \in BOOLEAN
    /\ Fresh

\* No exception has left a callback of deflate or of the socket: such an
\* exception is uncaught and ends the process (the application installing
\* no 'uncaughtException' handler).
Alive == \A m \in Msgs : thrown[m].in \notin {"deflate", "send"}

\* ----------------------------------------------------------------- helpers

\* Whether calling the completion callback yields a truthy value.
CallbackReturnsTruthy(c) == c = "truthy"

\* emitError(err): this.emit('error', err). With a listener the event is
\* delivered; with none EventEmitter throws err.
emitError(err, hasListener) ==
    [events |-> IF hasListener THEN <<err>> ELSE <<>>,
     throws |-> ~hasListener]

\* What emitError(err) does when it is not called at all.
NotEmitted == [events |-> <<>>, throws |-> FALSE]

\* ------------------------------------------------------------------- send

\* send(): if (!Array.isArray(msg)) msg = [ msg ]; one task per element.
sendTasks(m) == IF m.isArray THEN m.value ELSE <<m.value>>

\* Whether the callback async.series hands to a task returns a truthy
\* value: it returns undefined.
TaskCallbackReturnsTruthy == FALSE

\* The callback a task gives to client.send, called with or without an
\* error: return cb(err) && self.emitError(err), or return cb(null).
\* arg is what the task's callback cb is called with.
sendCallback(failed, hasListener) ==
    [arg |-> IF failed THEN ErrSend ELSE Null,
     emit |-> IF failed /\ TaskCallbackReturnsTruthy
              THEN emitError(ErrSend, hasListener)
              ELSE NotEmitted]

\* async.parallel written for async.series: every task starts at once.
seriesStart_Parallel(n) == [k \in 1..n |-> k - 1]

\* async.series(tasks, ...) when called: the indexes of the tasks it starts.
seriesStart(n) == IF n > 0 THEN <<0>> ELSE <<>>

\* A series that goes on to the next task after a failed one.
seriesStep_NoAbort(i, n, arg) ==
    IF i + 1 < n THEN [final |-> FALSE, start |-> <<i + 1>>]
    ELSE [final |-> TRUE, start |-> <<>>]

\* async.series when task i of n calls back with arg: whether the series
\* ends (its final callback runs) and the indexes of the tasks it starts.
seriesStep(i, n, arg) ==
    IF arg # Null THEN [final |-> TRUE, start |-> <<>>]
    ELSE IF i + 1 < n THEN [final |-> FALSE, start |-> <<i + 1>>]
    ELSE [final |-> TRUE, start |-> <<>>]

\* The final callback without its return: cb(err) && ...; cb(null)
seriesFinal_NoReturn(arg, c, hasListener) ==
    [calls |-> IF arg # Null THEN <<arg, Null>> ELSE <<Null>>,
     emit |-> IF arg # Null /\ CallbackReturnsTruthy(c)
              THEN emitError(arg, hasListener)
              ELSE NotEmitted]

\* The final callback of the series:
\* if (err) return cb(err) && this.emitError(err); cb(null)
seriesFinal(arg, c, hasListener) ==
    [calls |-> <<arg>>,
     emit |-> IF arg # Null /\ CallbackReturnsTruthy(c)
              THEN emitError(arg, hasListener)
              ELSE NotEmitted]

\* The final callback when the series has not ended.
NotFinal == [calls |-> <<>>, emit |-> NotEmitted]

Range(seq) == {seq[i] : i \in 1..Len(seq)}

\* ---------------------------------------------------------------- actions

\* this.emit('gelf.log', json, cb): the listener normalises the input and
\* schedules sendMessage(msg, cb) with setImmediate. An exception of
\* sanitizeMsg leaves the listener before anything is scheduled.
EmitGelfLogAt(m, inputs, cbs, hostnames, times) ==
    \E json \in inputs, c \in cbs, hostname \in hostnames, now \in times :
        LET r == sanitizeMsg(json, hostname, now)
            e == IF r.rejected THEN emitError(ErrId, errorListener) ELSE NotEmitted
        IN  /\ Alive
            /\ pc[m] = "idle"
            /\ trigger' = [trigger EXCEPT ![m] = "gelf.log"]
            /\ input' = [input EXCEPT ![m] = json]
            /\ cb' = [cb EXCEPT ![m] = c]
            /\ errEvents' = [errEvents EXCEPT ![m] = @ \o e.events]
            /\ IF e.throws
               THEN /\ pc' = [pc EXCEPT ![m] = "thrown"]
                    /\ thrown' = [thrown EXCEPT ![m] = [in |-> "gelf.log", err |-> ErrId]]
                    /\ UNCHANGED text
               ELSE /\ pc' = [pc EXCEPT ![m] = "scheduled"]
                    /\ text' = [text EXCEPT ![m] = r.text]
                    /\ UNCHANGED thrown
            /\ UNCHANGED <<loop, config, errorListener, deflateErr, payload, tasks, inflight,
                           sent, acked, cbCalls>>

EmitGelfLogWith(m, inputs, cbs) == EmitGelfLogAt(m, inputs, cbs, {Hostname}, Times)

EmitGelfLog(m) == EmitGelfLogWith(m, LogInputs, Callbacks)

\* The setImmediate callback: sendMessage(msg, cb) calls compress, which
\* calls deflate.
Immediate(m) ==
    /\ Alive
    /\ pc[m] = "scheduled"
    /\ pc' = [pc EXCEPT ![m] = "deflating"]
    /\ UNCHANGED <<loop, config, errorListener, trigger, input, cb, text, deflateErr, payload,
                   tasks, inflight, sent, acked, cbCalls, errEvents, thrown>>

\* this.emit('gelf.message', msg, cb): sendMessage(msg, cb) at once.
EmitGelfMessageWith(m, cbs) ==
    \E raw \in RawInputs, c \in cbs :
        /\ Alive
        /\ pc[m] = "idle"
        /\ trigger' = [trigger EXCEPT ![m] = "gelf.message"]
        /\ input' = [input EXCEPT ![m] = StrMsg(raw)]
        /\ cb' = [cb EXCEPT ![m] = c]
        /\ text' = [text EXCEPT ![m] = RawText(raw)]
        /\ pc' = [pc EXCEPT ![m] = "deflating"]
        /\ UNCHANGED <<loop, config, errorListener, deflateErr, payload, tasks, inflight, sent,
                       acked, cbCalls, errEvents, thrown>>

EmitGelfMessage(m) == EmitGelfMessageWith(m, Callbacks)

\* deflate calls back with an error: compress calls cb(err), the callback
\* sendMessage gave it, which ignores the error and reads buf.length of an
\* undefined buf. The TypeError leaves compress before emitError(err).
DeflateFailed(m) ==
    /\ Alive
    /\ pc[m] = "deflating"
    /\ pc' = [pc EXCEPT ![m] = "thrown"]
    /\ deflateErr' = [deflateErr EXCEPT ![m] = ErrDeflate]
    /\ thrown' = [thrown EXCEPT ![m] = [in |-> "deflate", err |-> ErrType]]
    /\ UNCHANGED <<loop, config, errorListener, trigger, input, cb, text, payload, tasks,
                   inflight, sent, acked, cbCalls, errEvents>>

\* deflate calls back with a buffer: compress calls cb(null, buf), which
\* chunks the buffer if need be and calls send; send builds the tasks and
\* async.series starts the first one.
DeflateSucceededWith(m, payloads, msgIds) ==
    \E buf \in payloads, msgId \in msgIds :
        LET ts == sendTasks(maybeChunkMessage(buf, config, msgId))
            st == seriesStart(Len(ts))
            fin == IF Len(ts) = 0
                   THEN seriesFinal(Null, cb[m], errorListener)
                   ELSE NotFinal
        IN  /\ Alive
            /\ pc[m] = "deflating"
            /\ deflateErr' = [deflateErr EXCEPT ![m] = Null]
            /\ payload' = [payload EXCEPT ![m] = buf]
            /\ tasks' = [tasks EXCEPT ![m] = ts]
            /\ sent' = [sent EXCEPT ![m] = @ \o st]
            /\ inflight' = [inflight EXCEPT ![m] = Range(st)]
            /\ cbCalls' = [cbCalls EXCEPT ![m] = @ \o fin.calls]
            /\ pc' = [pc EXCEPT ![m] = IF Len(ts) = 0 THEN "done" ELSE "sending"]
            /\ UNCHANGED <<loop, config, errorListener, trigger, input, cb, text, acked,
                           errEvents, thrown>>

DeflateSucceeded(m) == DeflateSucceededWith(m, Payloads, MsgIds)

\* The same callback of deflate, followed pass by pass through the loop of
\* getChunks: it goes as far as the call of getChunks when maybeChunkMessage
\* makes one, and to the end of send when it makes none.
DeflateSucceededToLoop(m, payloads, msgIds) ==
    \E buf \in payloads, msgId \in msgIds :
        /\ Alive
        /\ pc[m] = "deflating"
        /\ deflateErr' = [deflateErr EXCEPT ![m] = Null]
        /\ payload' = [payload EXCEPT ![m] = buf]
        /\ IF callsGetChunks(buf, config)
           THEN /\ pc' = [pc EXCEPT ![m] = "chunking"]
                /\ loop' = [loop EXCEPT ![m] =
                                [index |-> 0, res |-> <<>>,
                                 chunkSize |-> chunkSizeGiven(config),
                                 msgId |-> msgId]]
                /\ UNCHANGED <<tasks, sent, inflight>>
           ELSE /\ pc' = [pc EXCEPT ![m] = "sending"]
                /\ tasks' = [tasks EXCEPT ![m] = <<buf>>]
                /\ sent' = [sent EXCEPT ![m] = @ \o seriesStart(1)]
                /\ inflight' = [inflight EXCEPT ![m] = Range(seriesStart(1))]
                /\ UNCHANGED loop
        /\ UNCHANGED <<config, errorListener, trigger, input, cb, text, acked,
                       cbCalls, errEvents, thrown>>

\* One pass of the loop of getChunks: index < buf.length, the slice is
\* pushed and chunkSize is added to index. A loop that has made
\* ExtraPasses more passes than buf has bytes is followed no further.
GetChunksPass(m) ==
    /\ Alive
    /\ pc[m] = "chunking"
    /\ loop[m].index < Len(payload[m])
    /\ Len(loop[m].res) < Len(payload[m]) + ExtraPasses
    /\ loop' = [loop EXCEPT ![m] =
                    [@ EXCEPT !.res = Append(@, ArraySlice(payload[m], loop[m].index,
                                                loop[m].index + loop[m].chunkSize)),
                              !.index = @ + loop[m].chunkSize]]
    /\ UNCHANGED <<config, errorListener, pc, trigger, input, cb, text, deflateErr,
                   payload, tasks, inflight, sent, acked, cbCalls, errEvents, thrown>>

\* The loop of getChunks ends: index >= buf.length. createPackets frames
\* the chunks, send builds the tasks and async.series starts the first.
GetChunksReturn(m) ==
    LET ts == createPackets(loop[m].res, loop[m].msgId)
        st == seriesStart(Len(ts))
        fin == IF Len(ts) = 0
               THEN seriesFinal(Null, cb[m], errorListener)
               ELSE NotFinal
    IN  /\ Alive
        /\ pc[m] = "chunking"
        /\ ~(loop[m].index < Len(payload[m]))
        /\ loop' = [loop EXCEPT ![m] = NoLoop]
        /\ tasks' = [tasks EXCEPT ![m] = ts]
        /\ sent' = [sent EXCEPT ![m] = @ \o st]
        /\ inflight' = [inflight EXCEPT ![m] = Range(st)]
        /\ cbCalls' = [cbCalls EXCEPT ![m] = @ \o fin.calls]
        /\ pc' = [pc EXCEPT ![m] = IF Len(ts) = 0 THEN "done" ELSE "sending"]
        /\ UNCHANGED <<config, errorListener, trigger, input, cb, text, deflateErr,
                       payload, acked, errEvents, thrown>>

\* The socket calls back for the send of datagram i, with or without an
\* error. The task's callback tells async.series, which starts the next
\* task or runs its final callback; an exception of emitError leaves the
\* socket's callback.
SocketSendDone(m) ==
    \E i \in inflight[m], failed \in BOOLEAN :
        LET t == sendCallback(failed, errorListener)
            step == seriesStep(i, Len(tasks[m]), t.arg)
            fin == IF step.final
                   THEN seriesFinal(t.arg, cb[m], errorListener)
                   ELSE NotFinal
            throws == fin.emit.throws \/ t.emit.throws
        IN  /\ Alive
            /\ pc[m] = "sending"
            /\ acked' = [acked EXCEPT ![m] = Append(@, <<i, t.arg>>)]
            /\ sent' = [sent EXCEPT ![m] = @ \o step.start]
            /\ inflight' = [inflight EXCEPT ![m] = (@ \ {i}) \cup Range(step.start)]
            /\ cbCalls' = [cbCalls EXCEPT ![m] = @ \o fin.calls]
            /\ errEvents' = [errEvents EXCEPT ![m] = @ \o fin.emit.events \o t.emit.events]
            /\ thrown' = [thrown EXCEPT ![m] =
                             IF throws THEN [in |-> "send", err |-> t.arg] ELSE @]
            /\ pc' = [pc EXCEPT ![m] =
                         IF throws THEN "thrown"
                         ELSE IF step.final THEN "done" ELSE "sending"]
            /\ UNCHANGED <<loop, config, errorListener, trigger, input, cb, text, deflateErr,
                           payload, tasks>>

Next ==
    \E m \in FirstMsg :
        \/ EmitGelfLog(m)
        \/ Immediate(m)
        \/ EmitGelfMessage(m)
        \/ DeflateFailed(m)
        \/ DeflateSucceeded(m)
        \/ SocketSendDone(m)

Spec == Init /\ [][Next]_vars

\* ------------------------------------------------- runs with long payloads

\* Buffers that need more chunks than GELF allows, and than a byte counts,
\* when the limit is one byte.
LongPayloads == {[i \in 1..n |-> 0] : n \in {MaxChunkCount + 1, ByteMod}}

\* A client whose limits are one byte.
InitLong ==
    /\ config \in {c \in Configs : c.maxChunkSizeWan = 1 /\ c.maxChunkSizeLan = 1}
    /\ errorListener \in BOOLEAN
    /\ Fresh

\* A raw message with no callback whose deflated form is long.
NextLong ==
    \E m \in FirstMsg :
        \/ EmitGelfMessageWith(m, {"none"})
        \/ DeflateSucceededToLoop(m, LongPayloads, MsgIds)
        \/ GetChunksPass(m)
        \/ GetChunksReturn(m)
        \/ SocketSendDone(m)

SpecLong == InitLong /\ [][NextLong]_vars

\* ------------------------------------------- runs that normalise twice

\* Structured inputs in which the caller has set timestamp, host, version
\* and facility: to values of its own, and to the epoch as timestamp.
PopulatedInputs ==
    {ObjMsg(<< <<"version", Str("1.1")>>, <<"host", Str("app")>>,
               <<"timestamp", Num(ts)>>, <<"facility", Str("test")>>,
               <<"short_message", Str("hi")>> >>) : ts \in {0, 5}}

\* What os.hostname() and the clock may answer at one call and at another.
Hostnames == {Hostname, "otherhost"}
LaterTimes == Times \cup {MaxTime + 1}

\* Two 'gelf.log' events: sanitizeMsg is called once for each.
NextNorm ==
    \E m \in Msgs :
        \/ EmitGelfLogAt(m, PopulatedInputs, {"none"}, Hostnames, LaterTimes)
        \/ Immediate(m)

SpecNorm == Init /\ [][NextNorm]_vars

\* ------------------------------------------ runs with two messages at once

\* One buffer of each length.
ZeroPayloads == {[i \in 1..n |-> 0] : n \in 1..MaxLen}

\* Two raw messages on one client, their steps interleaved in any order.
NextTwo ==
    \E m \in Msgs :
        \/ EmitGelfMessageWith(m, Callbacks)
        \/ DeflateSucceededWith(m, ZeroPayloads, {MsgIdBase})
        \/ SocketSendDone(m)

SpecTwo == InitLong /\ [][NextTwo]_vars

\* --------------------------------------------- runs with any configuration

\* Values of maxChunkSizeWan / maxChunkSizeLan that are no sizes.
NoSizes == {-1, 0}

\* The options the constructor takes as they are: any string for
\* connection, any number for the limits.
AnyConfigs ==
    [connection : {"wan", "lan", "udp"},
     maxChunkSizeWan : NoSizes \cup (1..MaxChunkSize),
     maxChunkSizeLan : NoSizes \cup (1..MaxChunkSize)]

InitAny ==
    /\ config \in AnyConfigs
    /\ errorListener \in BOOLEAN
    /\ Fresh

\* A raw message with no callback, the loop of getChunks followed pass by
\* pass.
NextAny ==
    \E m \in FirstMsg :
        \/ EmitGelfMessageWith(m, {"none"})
        \/ DeflateSucceededToLoop(m, Payloads, MsgIds)
        \/ GetChunksPass(m)
        \/ GetChunksReturn(m)
        \/ SocketSendDone(m)

SpecAny == InitAny /\ [][NextAny]_vars

\* ----------------------------------------------------------------- claims

\* The configured limit of the configured connection kind.
Limit == IF config.connection = "wan"
         THEN config.maxChunkSizeWan
         ELSE config.maxChunkSizeLan

\* The messages whose buffer has been through maybeChunkMessage.
Chunked(m) == deflateErr[m] = Null

\* The length of the header createPackets puts before a fragment.
HeaderLen == Len(GELF_MAGIC_NO) + 3

\* What follows the first k bytes of a datagram.
Strip(p, k) == SubSeq(p, k + 1, Len(p))

\* p is framed: it starts with the magic bytes.
Framed(p) == Len(p) >= HeaderLen /\ SubSeq(p, 1, 2) = GELF_MAGIC_NO

RECURSIVE Concat(_)
Concat(seqs) == IF seqs = <<>> THEN <<>> ELSE Head(seqs) \o Concat(Tail(seqs))

\* C1: with limit N of the configured kind (wan or lan), a payload of
\* length L <= N is returned as it is, one unframed datagram, and a payload
\* of length L > N is returned as at least two framed datagrams, each with
\* a fragment of at most N bytes.
C1_ChunkingThreshold ==
    \A m \in Msgs :
        Chunked(m) =>
            IF Len(payload[m]) <= Limit
            THEN tasks[m] = <<payload[m]>> /\ ~Framed(tasks[m][1])
            ELSE /\ Len(tasks[m]) >= 2
                 /\ \A i \in 1..Len(tasks[m]) :
                        /\ Framed(tasks[m][i])
                        /\ Len(Strip(tasks[m][i], HeaderLen)) \in 1..Limit

\* A payload one byte longer than the limit has been chunked.
C1_Witness ==
    \E m \in Msgs :
        Chunked(m) /\ Len(payload[m]) = Limit + 1 /\ Len(tasks[m]) >= 2

\* A payload exactly as long as the limit has been left as it is.
C1_WitnessAtLimit ==
    \E m \in Msgs :
        Chunked(m) /\ Len(payload[m]) = Limit /\ tasks[m] = <<payload[m]>>

\* C2: every datagram of a chunked message starts with a 12-byte header,
\* bytes 0-1 = 0x1e 0x0f, bytes 2-9 the message id, byte 10 the sequence
\* index, byte 11 the total count, and its fragment starts at offset 12.
C2_ChunkWireFormat ==
    \A m \in Msgs :
        (Chunked(m) /\ Len(payload[m]) > Limit) =>
            \A i \in 1..Len(tasks[m]) :
                LET p == tasks[m][i]
                IN  /\ Len(p) >= 12
                    /\ SubSeq(p, 1, 2) = GELF_MAGIC_NO
                    /\ p[11] = i - 1
                    /\ p[12] = Len(tasks[m])
                    /\ Strip(p, 12) = getChunks(payload[m], Limit)[i]

\* C3: for a payload longer than the limit, the datagrams in index order,
\* each without its first 12 bytes, concatenate to the payload.
C3_RoundTrip ==
    \A m \in Msgs :
        (Chunked(m) /\ Len(payload[m]) > Limit) =>
            Concat([i \in 1..Len(tasks[m]) |-> Strip(tasks[m][i], 12)]) = payload[m]

\* <<0, 1, ..., k-1>>
UpTo(k) == [x \in 1..k |-> x - 1]

\* The send of datagram i of message m has been called back with arg.
Acked(m, i, arg) == <<i, arg>> \in Range(acked[m])

\* C4: the datagrams of a message are handed to the socket in index order
\* 0, 1, ..., each once, datagram i+1 only after the send of datagram i
\* has called back without an error, and at most one send of the message is
\* in flight at any time.
C4_StrictSendOrder ==
    \A m \in Msgs :
        /\ Cardinality(inflight[m]) <= 1
        /\ Len(sent[m]) <= Len(tasks[m])
        /\ sent[m] = UpTo(Len(sent[m]))
        /\ \A i \in 1..(Len(sent[m]) - 1) : Acked(m, i - 1, Null)

\* The third datagram of a message is in flight.
C4_Witness ==
    \E m \in Msgs : sent[m] = <<0, 1, 2>> /\ inflight[m] = {2}

\* C5: once the send of datagram k has failed, datagrams 0..k have been
\* handed to the socket once each, k+1 sends in all, nothing is in flight
\* and no send is called back after it.
C5_FirstFailureAbort ==
    \A m \in Msgs :
        \A j \in 1..Len(acked[m]) :
            acked[m][j][2] # Null =>
                /\ sent[m] = UpTo(acked[m][j][1] + 1)
                /\ inflight[m] = {}
                /\ j = Len(acked[m])

\* The second send of a message of three datagrams has failed.
C5_Witness ==
    \E m \in Msgs :
        /\ Len(tasks[m]) = 3
        /\ acked[m] = << <<0, Null>>, <<1, ErrSend>> >>
        /\ sent[m] = <<0, 1>>

\* C6: when a send of a message has failed (the application listening to
\* 'error'), the completion callback has been called once, with the error,
\* and one 'error' event with the error has been emitted.
C6_FailureOnBothChannels ==
    \A m \in Msgs :
        (errorListener /\ \E i \in 0..MaxLen : Acked(m, i, ErrSend)) =>
            /\ cbCalls[m] = <<ErrSend>>
            /\ SelectSeq(errEvents[m], LAMBDA e : e = ErrSend) = <<ErrSend>>

\* The input of a 'gelf.log' event is an object with the key _id.
HasId(m) ==
    /\ trigger[m] = "gelf.log"
    /\ input[m].type = "object"
    /\ "_id" \in Keys(input[m].obj)

\* C7: a 'gelf.log' event whose input has the key _id, whatever its value,
\* puts the error on the 'error' channel (the application listening to it)
\* and hands no datagram to the socket.
C7_ReservedFieldSendsNothing ==
    \A m \in Msgs :
        (errorListener /\ HasId(m)) =>
            /\ errEvents[m] = <<ErrId>>
            /\ sent[m] = <<>>

\* The input of a 'gelf.log' event has the key _id and sanitizeMsg
\* rejected it.
Rejected(m) == HasId(m) /\ Truthy(Get(input[m].obj, "_id"))

\* C8: the completion callback given with a 'gelf.log' event whose input
\* is rejected for the key _id is never called with no error, and has been
\* called with the validation error when the event's work is done.
C8_ValidationFailureToCallback ==
    \A m \in Msgs :
        (Rejected(m) /\ cb[m] # "none") =>
            /\ Null \notin Range(cbCalls[m])
            /\ pc[m] = "done" => ErrId \in Range(cbCalls[m])

\* C9: when deflate has called back with an error (the application
\* listening to 'error'), the completion callback has been called with it,
\* an 'error' event carries it, and nothing was chunked or sent.
C9_CompressionFailureSurfaced ==
    \A m \in Msgs :
        (errorListener /\ deflateErr[m] = ErrDeflate) =>
            /\ cbCalls[m] = <<ErrDeflate>>
            /\ ErrDeflate \in Range(errEvents[m])
            /\ thrown[m] = NoThrow
            /\ sent[m] = <<>>

\* Every datagram of message m has been sent and called back without error.
AllSendsOk(m) ==
    /\ Chunked(m)
    /\ Len(acked[m]) = Len(tasks[m])
    /\ \A j \in 1..Len(acked[m]) : acked[m][j][2] = Null

IsChunked(m) ==
    /\ Chunked(m)
    /\ Len(payload[m]) > Limit
    /\ pc[m] # "chunking"

\* The header fields as createPackets lays them out: the byte of the
\* message id at offset 2, the total count at offset 4.
IdField(p) == p[Len(GELF_MAGIC_NO) + 1]
CountField(p) == p[Len(GELF_MAGIC_NO) + 3]

\* C11: all datagrams of one chunked message carry the same message id
\* field, the byte of one id drawn for the message, and the same total
\* count byte.
C11_MessageIdConsistency ==
    \A m \in Msgs :
        IsChunked(m) =>
            /\ \E id \in MsgIds :
                   \A i \in 1..Len(tasks[m]) : IdField(tasks[m][i]) = id % ByteMod
            /\ \A i, j \in 1..Len(tasks[m]) :
                   CountField(tasks[m][i]) = CountField(tasks[m][j])

\* A message has been chunked into three datagrams.
C11_Witness ==
    \E m \in Msgs : IsChunked(m) /\ Len(tasks[m]) = 3

\* The input of a 'gelf.log' event is a string.
IsStringLog(m) == trigger[m] = "gelf.log" /\ input[m].type = "string"

\* C14: the envelope made of a string s has short_message = s,
\* version = "1.0", a non-empty host, a numeric timestamp read from the
\* clock and the default facility.
C14_StringDefaults ==
    \A m \in Msgs :
        (IsStringLog(m) /\ pc[m] # "thrown") =>
            LET e == text[m].pairs
            IN  /\ Get(e, "short_message") = Str(input[m].str)
                /\ Get(e, "version") = Str("1.0")
                /\ Get(e, "host").t = "string" /\ Get(e, "host").s # ""
                /\ Get(e, "timestamp").t = "number"
                /\ Get(e, "timestamp").n \in Times
                /\ Get(e, "facility") = Str("node.js")

\* The keys sanitizeMsg has a default for.
DefaultKeys == {"version", "host", "timestamp", "facility", "short_message"}

\* The input of a 'gelf.log' event is an object without the key _id.
IsObjectLog(m) ==
    /\ trigger[m] = "gelf.log"
    /\ input[m].type = "object"
    /\ "_id" \notin Keys(input[m].obj)

\* C15: in the envelope made of an object without _id every field of the
\* caller has the caller's value, whatever it is, and every key with a
\* default that the caller left out has a value.
C15_CallerFieldsPreserved ==
    \A m \in Msgs :
        (IsObjectLog(m) /\ pc[m] # "thrown") =>
            LET e == text[m].pairs
            IN  /\ \A k \in Keys(input[m].obj) : Get(e, k) = Get(input[m].obj, k)
                /\ \A k \in DefaultKeys \ Keys(input[m].obj) : Get(e, k) # Undefined

\* C16: no exception leaves the call that emits 'gelf.log' or
\* 'gelf.message', whatever the input and whether or not the application
\* listens to 'error'.
C16_NoSynchronousThrow ==
    \A m \in Msgs : thrown[m].in \notin {"gelf.log", "gelf.message"}

\* The number of fragments of l bytes under limit n: ceil(l / n).
CeilDiv(l, n) == (l + n - 1) \div n

\* The sequence index of a datagram, at offset 3 of its header.
IndexField(p) == p[Len(GELF_MAGIC_NO) + 2]

\* C12: a payload of length L chunked with limit N gives ceil(L/N)
\* datagrams in payload order, the datagram at position i carrying sequence
\* index i (from 0) and the total count ceil(L/N).
C12_ChunkNumbering ==
    \A m \in Msgs :
        IsChunked(m) =>
            LET n == CeilDiv(Len(payload[m]), Limit)
            IN  /\ Len(tasks[m]) = n
                /\ \A i \in 1..Len(tasks[m]) :
                       /\ IndexField(tasks[m][i]) = i - 1
                       /\ CountField(tasks[m][i]) = n
                       /\ Strip(tasks[m][i], HeaderLen)
                              = Slice(payload[m], (i - 1) * Limit, i * Limit)

\* C13: a chunked message handed to the socket has at most 128 chunks and
\* its count byte is that number; a payload that needs more is not sent.
C13_ChunkCountCeiling ==
    \A m \in Msgs :
        (IsChunked(m) /\ sent[m] # <<>>) =>
            /\ Len(tasks[m]) <= MaxChunkCount
            /\ \A i \in 1..Len(tasks[m]) : CountField(tasks[m][i]) = Len(tasks[m])

\* C19: maybeChunkMessage returns for every payload and every numeric
\* limit. The loop of getChunks ends only when index reaches buf.length and
\* every pass adds the same chunkSize, so it ends exactly if every pass
\* moves index forward.
C19_ChunkingTerminates ==
    [][\A m \in Msgs :
           (pc[m] = "chunking" /\ pc'[m] = "chunking") =>
               loop'[m].index > loop[m].index]_vars

\* C20: whatever the connection option, no unframed datagram longer than
\* the configured limits (the greater of the two) is handed to the socket.
C20_SizeLimitAlways ==
    \A m \in Msgs :
        (Chunked(m) /\ sent[m] # <<>> /\ tasks[m] = <<payload[m]>>) =>
            Len(payload[m]) <= Max(config.maxChunkSizeWan, config.maxChunkSizeLan)

\* The loop of getChunks, followed pass by pass, returns what getChunks is
\* defined to return, and the tasks are those of maybeChunkMessage.
StepwiseAgrees ==
    \A m \in Msgs :
        /\ (pc[m] = "chunking" /\ loop[m].chunkSize >= 1
              /\ ~(loop[m].index < Len(payload[m])))
               => loop[m].res = getChunks(payload[m], loop[m].chunkSize)
        /\ (Chunked(m) /\ pc[m] \in {"sending", "done"}
              /\ config.maxChunkSizeWan >= 1 /\ config.maxChunkSizeLan >= 1)
               => \E id \in MsgIds :
                      tasks[m] = sendTasks(maybeChunkMessage(payload[m], config, id))

\* The caller has set timestamp, host, version and facility in msg.
Populated(msg) ==
    /\ msg.type = "object"
    /\ \A k \in {"timestamp", "host", "version", "facility"} :
           Get(msg.obj, k) # Undefined

\* C17: sanitizeMsg called twice on the same structured input in which
\* timestamp, host, version and facility are set returns the same text,
\* whatever the clock and the host name are at each call.
C17_IdempotentNormalization ==
    \A a \in Msgs, b \in Msgs :
        (/\ trigger[a] = "gelf.log" /\ trigger[b] = "gelf.log"
         /\ input[a] = input[b]
         /\ Populated(input[a]))
            => text[a] = text[b]

\* A send of message m has called back with an error.
SendFailed(m) == \E k \in 1..Len(acked[m]) : acked[m][k][2] # Null

\* C18: of two messages in flight at once, each one's datagrams reach the
\* socket in index order, and a failed send of one leaves the other alone:
\* while the other has datagrams left to send its sends go on being called
\* back, and its completion callback gets no error.
C18_ConcurrentIsolation ==
    \A a \in Msgs : \A b \in Msgs \ {a} :
        /\ \A k \in 1..Len(sent[b]) : sent[b][k] = k - 1
        /\ (SendFailed(a) /\ ~SendFailed(b)) =>
               /\ \A k \in 1..Len(cbCalls[b]) : cbCalls[b][k] = Null
               /\ (pc[b] = "sending" /\ Len(sent[b]) < Len(tasks[b]))
                      => ENABLED SocketSendDone(b)

====
